---- MODULE Spec2Model ----
(***************************************************************************)
(* Model of LLMCall.execute, the judge agent's retry-and-validate loop     *)
(* (pandasai/ee/agents/judge_agent/pipeline/llm_call.py).                  *)
(*                                                                         *)
(* A response is a sequence of text chunks; the two verdict markers are    *)
(* chunks of their own, so that Python's `marker in response` is the       *)
(* contiguous-subsequence test IsSubstring.                                *)
(*                                                                         *)
(* Two further specifications share the module: SpecAzure, the             *)
(* construction and use of an AzureOpenAI instance (llm/azure_openai.py),  *)
(* and SpecCallback, the on_code callbacks (callbacks/base.py).            *)
(***************************************************************************)
EXTENDS Integers, Sequences, FiniteSets, TLC

\* ------------------------------------------------------------------ bounds
MaxRetriesBound == 2
MaxRespLen == 2
MaxAddFaults == 1
MaxAzCalls == 2
MaxEvents == 4

\* --------------------------------------------------------------- constants
YES == "<Yes>"
NO == "<No>"
\* a maximal run of text that holds no marker
TEXT == "garbage"
Tokens == {YES, NO, TEXT}

\* the texts of at most n chunks; two adjacent runs of plain text are one run
RECURSIVE SeqsUpTo(_)
SeqsUpTo(n) ==
    IF n = 0 THEN {<<>>}
    ELSE LET S == SeqsUpTo(n - 1)
             Longest == {x \in S : Len(x) = n - 1}
         IN  S \cup UNION {{Append(s, t) :
                               t \in {u \in Tokens :
                                        ~(u = TEXT /\ s # <<>> /\ s[Len(s)] = TEXT)}} :
                            s \in Longest}

\* every text the backend may return
Responses == SeqsUpTo(MaxRespLen)

\* config.max_retries: a non-negative integer
MaxRetriesValues == 0..MaxRetriesBound

\* the context's intermediate values before execute is called
PriorLog == <<[key |-> "input", value |-> <<TEXT>>]>>

None == [type |-> "NoneType"]
NoError == [type |-> "none", message |-> <<>>]
TransportError == [type |-> "TransportError", message |-> <<"backend unavailable">>]
ContextError == [type |-> "ContextError", message |-> <<"add failed">>]

VARIABLES
    max_retries,   \* pipeline_context.config.max_retries
    log0,          \* the context log when execute was entered
    log,           \* the context log (pipeline_context.add appends)
    messages,      \* what logger.log has received, in order
    history,       \* outcome of every llm.call made so far, in order
    pc,            \* position inside execute
    retry_count,   \* the local retry_count
    response,      \* the local response
    exc,           \* exception caught by `except Exception` in the last try
    status,        \* "running", "returned" or "raised"
    output,        \* the value execute returned
    error,         \* the exception execute raised
    add_faults     \* how often pipeline_context.add has raised

llm_vars == <<max_retries, log0, log, messages, history, pc, retry_count,
              response, exc, status, output, error, add_faults>>

VARIABLES
    az_args,        \* the arguments of AzureOpenAI.__init__
    az_attrs,       \* self.api_token, self.api_base, self.api_version as
                    \* __init__ finds them
    az_state,       \* "new", "ready" (constructed) or "failed"
    az_error,       \* the exception __init__ raised
    az_router,      \* self.router
    az_self,        \* self.is_chat_model, self.engine
    az_last_prompt, \* self.last_prompt
    az_calls        \* the calls made on self.router, in order

az_vars == <<az_args, az_attrs, az_state, az_error, az_router, az_self,
             az_last_prompt, az_calls>>

VARIABLES
    cb_stdout,      \* what has been written to standard output
    cb_events       \* every on_code invocation and how it ended, in order

cb_vars == <<cb_stdout, cb_events>>

vars == <<llm_vars, az_vars, cb_vars>>

\* ------------------------------------------------------------ pure helpers
\* Python's `s in t` on strings
IsSubstring(s, t) ==
    \E i \in 0..(Len(t) - Len(s)) : SubSeq(t, i + 1, i + Len(s)) = s

Contains(r, marker) == IsSubstring(<<marker>>, r)

\* the response grammar: exactly one of the two markers
WellFormed(r) == Contains(r, YES) # Contains(r, NO)
Malformed(r) == ~WellFormed(r)
YesOnly(r) == Contains(r, YES) /\ ~Contains(r, NO)
NoOnly(r) == Contains(r, NO) /\ ~Contains(r, YES)

\* line 45-50: the branch that raises InvalidOutputValueMismatch
Invalid(r) == ~Contains(r, YES) /\ ~Contains(r, NO)

VerdictAlwaysFalse(r) == FALSE

\* line 44-48: result
Verdict(r) == IF Contains(r, YES) THEN TRUE ELSE FALSE

InvalidOutputValueMismatch ==
    [type |-> "InvalidOutputValueMismatch",
     message |-> <<"Invalid response of LLM Call">>]

LogMessageNoText(r) == <<"LLM response:">>

\* line 38-42: the f-string handed to logger.log
LogMessage(r) == <<"LLM response:">> \o r

\* PipelineContext.add(key, value)
ContextAdd(l, key, value) == Append(l, [key |-> key, value |-> value])

\* line 54-59
LogicUnitOutput(result, r) ==
    [output |-> result,
     success |-> TRUE,
     message |-> "Code Generated Successfully",
     metadata |-> [content_type |-> "string", value |-> r]]

IsLastAttemptOff(rc, mr) == rc > mr

\* line 61
IsLastAttempt(rc, mr) == rc = mr

TextOutcome(r) == [kind |-> "text", text |-> r]
ErrorOutcome == [kind |-> "error", text |-> <<>>]

\* ------------------------------------------------------------------- Init
\* no AzureOpenAI instance is under construction
AzIdle ==
    /\ az_args = [api_token |-> "None", api_base |-> "None",
                  api_version |-> "None", deployment_name |-> "None",
                  is_chat_model |-> TRUE]
    /\ az_attrs = [api_token |-> "unset", api_base |-> "unset",
                   api_version |-> "unset"]
    /\ az_state = "idle"
    /\ az_error = NoError
    /\ az_router = <<>>
    /\ az_self = [is_chat_model |-> "unset", engine |-> "unset"]
    /\ az_last_prompt = <<>>
    /\ az_calls = <<>>

\* no callback has been invoked
CbIdle ==
    /\ cb_stdout = <<>>
    /\ cb_events = <<>>

Init ==
    /\ AzIdle
    /\ CbIdle
    /\ max_retries \in MaxRetriesValues
    /\ log0 = PriorLog
    /\ log = log0
    /\ messages = <<>>
    /\ history = <<>>
    /\ pc = "while"
    /\ retry_count = 0
    /\ response = <<>>
    /\ exc = NoError
    /\ status = "running"
    /\ output = None
    /\ error = NoError
    /\ add_faults = 0

\* ---------------------------------------------------------------- actions
\* line 35: the loop test; falling out of the loop returns None
WhileTest ==
    /\ pc = "while"
    /\ IF retry_count <= max_retries
       THEN /\ pc' = "call"
            /\ UNCHANGED <<status, output>>
       ELSE /\ pc' = "done"
            /\ status' = "returned"
            /\ output' = None
    /\ UNCHANGED <<max_retries, log0, log, messages, history, retry_count,
                   response, exc, error, add_faults>>
    /\ UNCHANGED <<az_vars, cb_vars>>

\* line 36: llm.call returns a text
LLMCallReturns ==
    /\ pc = "call"
    /\ \E r \in Responses :
         /\ response' = r
         /\ history' = Append(history, TextOutcome(r))
    /\ pc' = "log"
    /\ UNCHANGED <<max_retries, log0, log, messages, retry_count, exc,
                   status, output, error, add_faults>>
    /\ UNCHANGED <<az_vars, cb_vars>>

LLMCallRaisesRetried ==
    /\ pc = "call"
    /\ history' = Append(history, ErrorOutcome)
    /\ IF IsLastAttempt(retry_count, max_retries)
       THEN /\ pc' = "done"
            /\ status' = "raised"
            /\ error' = TransportError
            /\ UNCHANGED retry_count
       ELSE /\ pc' = "while"
            /\ retry_count' = retry_count + 1
            /\ UNCHANGED <<status, error>>
    /\ UNCHANGED <<max_retries, log0, log, messages, response, exc,
                   output, add_faults>>
    /\ UNCHANGED <<az_vars, cb_vars>>

\* line 36: llm.call raises; the call is outside the try, so execute raises
LLMCallRaises ==
    /\ pc = "call"
    /\ history' = Append(history, ErrorOutcome)
    /\ pc' = "done"
    /\ status' = "raised"
    /\ error' = TransportError
    /\ UNCHANGED <<max_retries, log0, log, messages, retry_count, response,
                   exc, output, add_faults>>
    /\ UNCHANGED <<az_vars, cb_vars>>

\* line 38-42
LoggerLog ==
    /\ pc = "log"
    /\ messages' = Append(messages, LogMessage(response))
    /\ pc' = "try"
    /\ UNCHANGED <<max_retries, log0, log, history, retry_count, response,
                   exc, status, output, error, add_faults>>
    /\ UNCHANGED <<az_vars, cb_vars>>

\* line 60-64: the handler of `except Exception`, entered with exception e
Except(e) ==
    /\ exc' = e
    /\ IF IsLastAttempt(retry_count, max_retries)
       THEN /\ pc' = "done"
            /\ status' = "raised"
            /\ error' = e
            /\ UNCHANGED retry_count
       ELSE /\ pc' = "while"
            /\ retry_count' = retry_count + 1
            /\ UNCHANGED <<status, error>>

TryReturnContinues ==
    /\ pc = "try"
    /\ ~Invalid(response)
    /\ log' = ContextAdd(log, "llm_call", response)
    /\ output' = LogicUnitOutput(Verdict(response), response)
    /\ retry_count' = retry_count + 1
    /\ pc' = "while"
    /\ exc' = NoError
    /\ UNCHANGED <<max_retries, log0, messages, history, status,
                   response, error, add_faults>>
    /\ UNCHANGED <<az_vars, cb_vars>>

\* line 43-59: a marker is found, add succeeds, execute returns
TryReturn ==
    /\ pc = "try"
    /\ ~Invalid(response)
    /\ log' = ContextAdd(log, "llm_call", response)
    /\ output' = LogicUnitOutput(Verdict(response), response)
    /\ status' = "returned"
    /\ pc' = "done"
    /\ exc' = NoError
    /\ UNCHANGED <<max_retries, log0, messages, history, retry_count,
                   response, error, add_faults>>
    /\ UNCHANGED <<az_vars, cb_vars>>

\* line 43-52, 60-64: a marker is found and pipeline_context.add raises
TryAddRaises ==
    /\ pc = "try"
    /\ ~Invalid(response)
    /\ add_faults < MaxAddFaults
    /\ add_faults' = add_faults + 1
    /\ Except(ContextError)
    /\ UNCHANGED <<max_retries, log0, log, messages, history, response,
                   output>>
    /\ UNCHANGED <<az_vars, cb_vars>>

TryInvalidAdds ==
    /\ pc = "try"
    /\ Invalid(response)
    /\ log' = ContextAdd(log, "llm_call", response)
    /\ Except(InvalidOutputValueMismatch)
    /\ UNCHANGED <<max_retries, log0, messages, history, response,
                   output, add_faults>>
    /\ UNCHANGED <<az_vars, cb_vars>>

\* line 43-50, 60-64: no marker is found
TryInvalid ==
    /\ pc = "try"
    /\ Invalid(response)
    /\ Except(InvalidOutputValueMismatch)
    /\ UNCHANGED <<max_retries, log0, log, messages, history, response,
                   output, add_faults>>
    /\ UNCHANGED <<az_vars, cb_vars>>

Next ==
    \/ WhileTest
    \/ LLMCallReturns
    \/ LLMCallRaises
    \/ LoggerLog
    \/ TryReturn
    \/ TryAddRaises
    \/ TryInvalid

Spec == Init /\ [][Next]_vars

\* ============================================================ AzureOpenAI
\* execute is not running
LLMIdle ==
    /\ max_retries = 0
    /\ log0 = PriorLog
    /\ log = log0
    /\ messages = <<>>
    /\ history = <<>>
    /\ pc = "idle"
    /\ retry_count = 0
    /\ response = <<>>
    /\ exc = NoError
    /\ status = "idle"
    /\ output = None
    /\ error = NoError
    /\ add_faults = 0

\* an argument is Python's None or a given string
ArgValues == {"None", "given"}

\* the constructor arguments (line 38-46)
AzArgs ==
    [api_token : ArgValues, api_base : ArgValues, api_version : ArgValues,
     deployment_name : ArgValues, is_chat_model : BOOLEAN]

\* __init__ reads self.api_token, self.api_base and self.api_version
\* (line 74-88) and never assigns them: what it finds is whatever the class
\* provides, an attribute with no value, None, or a value
AttrValues == {"unset", "None", "value"}
AzAttrs ==
    [api_token : AttrValues, api_base : AttrValues, api_version : AttrValues]

TPM == 240000
RPM == 1800

\* line 63-73
ModelList(args) ==
    <<[model_name |-> "gpt-3.5-turbo",
       litellm_params |-> [model |-> <<"azure/", args.deployment_name>>,
                           api_key |-> args.api_token,
                           api_version |-> args.api_version,
                           api_base |-> args.api_base],
       tpm |-> TPM,
       rpm |-> RPM]>>

AttributeError(name) == [type |-> "AttributeError", message |-> <<name>>]
KeyRequired ==
    [type |-> "APIKeyNotFoundError",
     message |-> <<"Azure OpenAI key is required.">>]
BaseRequired ==
    [type |-> "APIKeyNotFoundError",
     message |-> <<"Azure OpenAI base is required.">>]
VersionRequired ==
    [type |-> "APIKeyNotFoundError",
     message |-> <<"Azure OpenAI version is required.">>]
DeploymentRequired ==
    [type |-> "MissingModelError",
     message |-> <<"No deployment name provided.">>]

\* line 74-93: the first check that raises, NoError when none does
InitError(attrs, args) ==
    CASE attrs.api_token = "unset" -> AttributeError("api_token")
      [] attrs.api_token = "None" -> KeyRequired
      [] attrs.api_base = "unset" -> AttributeError("api_base")
      [] attrs.api_base = "None" -> BaseRequired
      [] attrs.api_version = "unset" -> AttributeError("api_version")
      [] attrs.api_version = "None" -> VersionRequired
      [] args.deployment_name = "None" -> DeploymentRequired
      [] OTHER -> NoError

InitAzure ==
    /\ LLMIdle
    /\ CbIdle
    /\ az_args \in AzArgs
    /\ az_attrs \in AzAttrs
    /\ az_state = "new"
    /\ az_error = NoError
    /\ az_router = <<>>
    /\ az_self = [is_chat_model |-> "unset", engine |-> "unset"]
    /\ az_last_prompt = <<>>
    /\ az_calls = <<>>

\* line 63-104: AzureOpenAI.__init__
AzConstruct ==
    /\ az_state = "new"
    /\ LET e == InitError(az_attrs, az_args)
       IN  IF e = NoError
           THEN /\ az_router' = ModelList(az_args)
                /\ az_self' = [is_chat_model |-> ToString(az_args.is_chat_model),
                               engine |-> az_args.deployment_name]
                /\ az_state' = "ready"
                /\ UNCHANGED az_error
           ELSE /\ az_error' = e
                /\ az_state' = "failed"
                /\ UNCHANGED <<az_router, az_self>>
    /\ UNCHANGED <<az_args, az_attrs, az_last_prompt, az_calls>>
    /\ UNCHANGED <<llm_vars, cb_vars>>

Instructions == {<<"q1">>, <<"q2">>}
Suffixes == {<<>>, <<"suffix">>}

\* line 117-136: AzureOpenAI.call on a constructed instance
AzCall ==
    /\ az_state = "ready"
    /\ Len(az_calls) < MaxAzCalls
    /\ \E instruction \in Instructions, suffix \in Suffixes :
         /\ az_last_prompt' = instruction \o suffix
         /\ az_calls' = Append(az_calls,
                [method |-> IF az_self.is_chat_model = "TRUE"
                            THEN "completion" ELSE "text_completion",
                 prompt |-> az_last_prompt'])
    /\ UNCHANGED <<az_args, az_attrs, az_state, az_error, az_router, az_self>>
    /\ UNCHANGED <<llm_vars, cb_vars>>

NextAzure ==
    \/ AzConstruct
    \/ AzCall

SpecAzure == InitAzure /\ [][NextAzure]_vars

\* the constructor arguments in the order the claim checks them
FirstMissing(args) ==
    CASE args.api_token = "None" -> KeyRequired
      [] args.api_base = "None" -> BaseRequired
      [] args.api_version = "None" -> VersionRequired
      [] args.deployment_name = "None" -> DeploymentRequired
      [] OTHER -> NoError

\* ============================================================== callbacks
\* the generated code handed to on_code
CodeTexts == {<<"x = 1">>, <<"print(df)">>}

MethodNotImplementedError ==
    [type |-> "MethodNotImplementedError",
     message |-> <<"Must have implemented this.">>]

StdoutWriteTwice(text) == text \o <<"\n">> \o text \o <<"\n">>

\* line 21: print(response) writes the text and a newline
StdoutWrite(text) == text \o <<"\n">>

InitCallback ==
    /\ LLMIdle
    /\ AzIdle
    /\ cb_stdout = <<>>
    /\ cb_events = <<>>

\* line 10-13: BaseCallBack.on_code
BaseOnCode ==
    /\ Len(cb_events) < MaxEvents
    /\ \E text \in CodeTexts :
         cb_events' = Append(cb_events,
             [cb |-> "BaseCallBack", text |-> text,
              raised |-> MethodNotImplementedError])
    /\ UNCHANGED cb_stdout
    /\ UNCHANGED <<llm_vars, az_vars>>

\* line 19-21: StdoutCallBack.on_code
StdoutOnCode ==
    /\ Len(cb_events) < MaxEvents
    /\ \E text \in CodeTexts :
         /\ cb_stdout' = cb_stdout \o StdoutWrite(text)
         /\ cb_events' = Append(cb_events,
                [cb |-> "StdoutCallBack", text |-> text, raised |-> NoError])
    /\ UNCHANGED <<llm_vars, az_vars>>

NextCallback ==
    \/ BaseOnCode
    \/ StdoutOnCode

SpecCallback == InitCallback /\ [][NextCallback]_vars

\* the texts handed to StdoutCallBack so far, each followed by its newline
RECURSIVE Emitted(_)
Emitted(events) ==
    IF events = <<>> THEN <<>>
    ELSE LET n == Len(events)
             e == events[n]
         IN  Emitted(SubSeq(events, 1, n - 1))
                \o (IF e.cb = "StdoutCallBack" THEN e.text \o <<"\n">>
                    ELSE <<>>)

\* ------------------------------------------------------------ derived
Calls == Len(history)
Last(s) == s[Len(s)]
AllMalformed ==
    \A i \in DOMAIN history :
        history[i].kind = "text" /\ Malformed(history[i].text)

TypeOK ==
    /\ max_retries \in MaxRetriesValues
    /\ pc \in {"while", "call", "log", "try", "done"}
    /\ status \in {"running", "returned", "raised"}
    /\ retry_count \in Nat
    /\ response \in Responses
    /\ (status = "running") = (pc # "done")

\* ------------------------------------------------------------ properties

\* C1: with max_retries = k and a backend whose every response is malformed
\* (neither marker, or both), execute makes exactly k+1 backend calls and
\* then raises InvalidOutputValueMismatch; never fewer or more calls.
C1_AllMalformedExhausts ==
    AllMalformed =>
        /\ Calls <= max_retries + 1
        /\ pc = "done" =>
              /\ Calls = max_retries + 1
              /\ status = "raised"
              /\ error.type = "InvalidOutputValueMismatch"

\* C2: a response with both markers or with neither is malformed on every
\* attempt: validating it never returns an output; it is retried when
\* attempts remain and raises the validation error on the last attempt.
C2_MalformedNeverSucceeds ==
    [][(pc = "try" /\ Malformed(response)) =>
          /\ status' # "returned"
          /\ output' = None
          /\ IF retry_count < max_retries
             THEN pc' = "while" /\ retry_count' = retry_count + 1
             ELSE status' = "raised"
                  /\ error'.type = "InvalidOutputValueMismatch"]_vars

\* C3: validating a response with "<Yes>" and not "<No>" returns verdict
\* TRUE, one with "<No>" and not "<Yes>" returns verdict FALSE (unless the
\* context's add raises), whatever attempts came before; the verdict is a
\* function of the returned response alone.
C3_VerdictFromMarker ==
    [][(pc = "try" /\ exc'.type # "ContextError") =>
          /\ YesOnly(response) =>
                /\ status' = "returned"
                /\ output'.output = TRUE
                /\ output'.metadata.value = response
          /\ NoOnly(response) =>
                /\ status' = "returned"
                /\ output'.output = FALSE
                /\ output'.metadata.value = response]_vars

C3_Witness ==
    /\ status = "returned"
    /\ retry_count > 0
    /\ YesOnly(response)
    /\ Malformed(history[1].text)
    /\ output.output = TRUE

\* C4: a backend call that raises is the last call: execute has raised that
\* error, the retry counter still counts only the attempts before it, and
\* the logger has no message for that call.
C4_TransportErrorPropagates ==
    \A i \in DOMAIN history :
        history[i].kind = "error" =>
            /\ i = Len(history)
            /\ pc = "done"
            /\ status = "raised"
            /\ error = TransportError
            /\ retry_count = i - 1
            /\ Len(messages) = i - 1
            /\ log = log0

C4_Witness ==
    /\ Len(history) = 2
    /\ history[2].kind = "error"
    /\ max_retries = 2
    /\ status = "raised"

\* C5: only a malformed output is retried: when pipeline_context.add raises
\* after a well-formed response, execute raises that error at once,
\* whatever the number of remaining attempts.
C5_OnlyMalformedRetried ==
    exc.type = "ContextError" => (status = "raised" /\ error = exc)

\* C6: after a successful execute the context log is the log at entry plus
\* exactly one entry ("llm_call", response of the successful attempt); the
\* output has success = TRUE, the fixed message and that response as value.
C6_OneLlmCallEntry ==
    (status = "returned" /\ output # None) =>
        /\ Len(log) = Len(log0) + 1
        /\ SubSeq(log, 1, Len(log0)) = log0
        /\ Last(log) = [key |-> "llm_call", value |-> response]
        /\ Last(history) = TextOutcome(response)
        /\ output.success = TRUE
        /\ output.message = "Code Generated Successfully"
        /\ output.metadata = [content_type |-> "string", value |-> response]

\* max_retries = 2 and responses "garbage", "garbage", "<Yes> ..."
C6_Witness ==
    /\ max_retries = 2
    /\ status = "returned"
    /\ history = <<TextOutcome(<<TEXT>>), TextOutcome(<<TEXT>>),
                   TextOutcome(<<YES, TEXT>>)>>
    /\ output.output = TRUE
    /\ Len(log) = Len(log0) + 1

\* C7: the validation error raised after the retries are exhausted exposes
\* the last malformed response text and the retry count reached.
C7_ErrorExposesResponse ==
    (status = "raised" /\ error.type = "InvalidOutputValueMismatch") =>
        /\ IsSubstring(response, error.message)
        /\ IsSubstring(<<ToString(retry_count)>>, error.message)

\* C8: execute never returns normally without a verdict taken from a
\* well-formed response: a return carries an output whose value is a
\* well-formed response and whose verdict is that response's marker.
C8_ReturnCarriesVerdict ==
    status = "returned" =>
        /\ output # None
        /\ WellFormed(output.metadata.value)
        /\ output.output = YesOnly(output.metadata.value)

\* C9: retry_count starts at 0, stays within 0..max_retries, never
\* decreases, and grows by exactly 1 per malformed attempt that is retried.
C9_RetryCountBounded ==
    /\ retry_count = 0
    /\ [][/\ retry_count >= 0
          /\ retry_count' <= max_retries
          /\ retry_count' \in {retry_count, retry_count + 1}
          /\ (pc = "try" /\ Malformed(response) /\ pc' = "while")
                => retry_count' = retry_count + 1
          /\ (pc = "try" /\ Invalid(response) /\ retry_count < max_retries)
                => retry_count' = retry_count + 1]_vars

C9_Witness ==
    /\ retry_count = max_retries
    /\ max_retries = 2
    /\ pc = "while"
    /\ Invalid(response)

\* C10: every response received is handed to the logger exactly once,
\* before it is validated and before the next backend call, so the logger
\* messages are the responses in attempt order; the "llm_call" entry of a
\* success is written once, after the logger message of that attempt.
C10_LoggedBeforeValidation ==
    /\ Len(messages) = (IF pc = "log" THEN Len(history) - 1
                        ELSE Cardinality({i \in DOMAIN history :
                                             history[i].kind = "text"}))
    /\ \A i \in DOMAIN messages :
          /\ history[i].kind = "text"
          /\ messages[i] = LogMessage(history[i].text)
          /\ SubSeq(messages[i], 2, Len(messages[i])) = history[i].text
    /\ log # log0 =>
          /\ log = Append(log0, [key |-> "llm_call", value |-> response])
          /\ Last(messages) = LogMessage(Last(log).value)
          /\ Len(messages) = Len(history)

C10_Witness ==
    /\ status = "returned"
    /\ Len(messages) = 3
    /\ Invalid(history[1].text)
    /\ history[1].text # history[2].text
    /\ log # log0

\* C14: an execute that ends in an error (the validation error after the
\* retries are exhausted, or a transport error on any attempt) leaves the
\* context log as it was at entry: no "llm_call" entry for a malformed or
\* failed attempt.
C14_ErrorLeavesLog ==
    (status = "raised" /\ error.type \in {"InvalidOutputValueMismatch",
                                          "TransportError"})
        => log = log0

C14_Witness ==
    /\ status = "raised"
    /\ error.type = "InvalidOutputValueMismatch"
    /\ retry_count = 2
    /\ Len(history) = 3
    /\ log = log0

\* the steps execute has left at most: four per remaining attempt
PcRank == [p \in {"while", "call", "log", "try", "done"} |->
              CASE p = "while" -> 4
                [] p = "call" -> 3
                [] p = "log" -> 2
                [] p = "try" -> 1
                [] p = "done" -> 0]
Variant ==
    IF pc = "done" THEN 0 ELSE 4 * (max_retries - retry_count) + PcRank[pc]

\* C15: execute terminates (every step decreases a non-negative variant)
\* after at most max_retries+1 backend calls; a call is made only when every
\* earlier call has returned and been handled; once a well-formed response
\* has been recorded in the context no further backend call is made.
C15_BoundedSequentialCalls ==
    [][/\ Variant' < Variant
       /\ Variant' >= 0
       /\ Calls' <= max_retries + 1
       /\ Calls' \in {Calls, Calls + 1}
       /\ Calls' = Calls + 1 =>
             /\ pc = "call"
             /\ Len(messages) = Calls
             /\ \A i \in DOMAIN history : history[i].kind = "text"
             /\ log = log0
       /\ log' # log0 =>
             /\ pc' = "done"
             /\ status' = "returned"
             /\ Last(history') = TextOutcome(Last(log').value)]_vars

C15_Witness ==
    /\ pc = "done"
    /\ Calls = max_retries + 1
    /\ max_retries = 2
    /\ status = "returned"
    /\ WellFormed(response)
    /\ log # log0

\* C11: constructing an AzureOpenAI with a missing API key, endpoint, API
\* version or deployment name fails with the configuration error of the
\* first missing field, before the router is created and before any
\* completion call; a failed construction leaves no router.
C11_MissingFieldFailsFast ==
    (az_state \in {"ready", "failed"} /\ FirstMissing(az_args) # NoError) =>
        /\ az_state = "failed"
        /\ az_error = FirstMissing(az_args)
        /\ az_router = <<>>
        /\ az_calls = <<>>

\* C13: on_code on the base callback always raises
\* MethodNotImplementedError and writes nothing; on_code on StdoutCallBack
\* writes the given text exactly once per invocation and does not raise.
C13_OnCodeCapability ==
    /\ \A i \in DOMAIN cb_events :
          (cb_events[i].cb = "BaseCallBack")
             = (cb_events[i].raised.type = "MethodNotImplementedError")
    /\ \A i \in DOMAIN cb_events :
          cb_events[i].cb = "StdoutCallBack" => cb_events[i].raised = NoError
    /\ cb_stdout = Emitted(cb_events)

C13_Witness ==
    /\ Len(cb_events) = 3
    /\ cb_events[1].cb = "StdoutCallBack"
    /\ cb_events[2].cb = "BaseCallBack"
    /\ cb_events[3].cb = "StdoutCallBack"
    /\ cb_events[1].text # cb_events[3].text
    /\ Len(cb_stdout) = 4

====
